---- MODULE Spec2Model ----
(***************************************************************************)
(* Model of the asynchronous logger (bb::core::Logger): the producer entry *)
(* points Log / LogToFile, the control operations SetLevel,                *)
(* SetLogfilePath and EnableFileLogging, the worker thread started by the  *)
(* constructor, and the destructor (store, notify, join, drain, close).    *)
(*                                                                         *)
(* The std::fstream _logFile is modelled by three fields: fileOpen         *)
(* (is_open()), fileFail (the stream's failbit: open() on a stream that is *)
(* already open, or on a path that cannot be opened, sets it; a successful *)
(* open() clears it; an insertion into a stream whose failbit is set       *)
(* writes nothing) and openPath (the path the handle was opened on).       *)
(***************************************************************************)
EXTENDS Naturals, Sequences, FiniteSets

\* ----- enum class LogLevel -----
Trace == 0
Debug == 1
Info  == 2
Warn  == 3
Error == 4
Fatal == 5
Off   == 6

LogLevel == Trace .. Off

\* levels that have an entry point (LOG_TRACE .. LOG_FATAL, FLOG_TRACE .. FLOG_FATAL)
CallLevels == Trace .. Fatal

\* ----- bounds of the model -----
\* number of Log / LogToFile calls made by the caller threads
MaxLogs == 2
\* number of SetLevel / SetLogfilePath / EnableFileLogging calls
MaxCtl == 2

\* ----- the file system: one path that can be opened for append, one that cannot -----
DEFAULT_PATH == "log.txt"
BadPath == "nodir/log.txt"
Paths == {DEFAULT_PATH, BadPath}
\* a second path that can be opened, and all the paths
OtherPath == "other.txt"
AllPaths == Paths \cup {OtherPath}
Openable(path) == path # BadPath

\* texts of the messages: the caller's message and the two the logger itself logs
UserText == "user"
MisuseText == "cannot log to file if it was not previously enabled"
OpenFailText == "Failed to open file"

VARIABLES
  _level,      \* LogLevel _level
  _logPath,    \* std::filesystem::path _logPath
  _logToFile,  \* bool _logToFile
  fileOpen,    \* _logFile.is_open()
  fileFail,    \* failbit of _logFile
  openPath,    \* path _logFile was last opened on
  _logQ,       \* std::queue<LogMessage> _logQ
  _running,    \* AtomicBool _running
  qMutex,      \* owner of _qMutex: "none" or "worker" (producers hold it within one step)
  wpc,         \* position of the worker thread
  wmsg,        \* the worker's local LogMessage msg (NoMsg outside its scope)
  dpc,         \* position of the destructor
  written,     \* history: every write performed, in order, with its sink
  nextId,      \* history: number of records pushed so far
  shutId,      \* history: number of records pushed when shutdown was triggered
  lastOp,      \* history: the last entry point called and its argument
  nlogs,       \* history: number of Log / LogToFile calls made
  nctl,        \* history: number of control calls made
  full,        \* format: const char *full = where.file_name(), as a sequence of characters
  p            \* format: const char *p, the short file name (NoPtr before it is computed)

vars == << _level, _logPath, _logToFile, fileOpen, fileFail, openPath, _logQ,
           _running, qMutex, wpc, wmsg, dpc, written, nextId, shutId, lastOp, nlogs, nctl,
           full, p >>

fmtVars == << full, p >>
fileVars == << fileOpen, fileFail, openPath >>
workerVars == << qMutex, wpc, wmsg >>

NoPtr == << "nullptr" >>

NoMsg == [id |-> 0, level |-> Off, text |-> "", toFile |-> FALSE, below |-> FALSE]

\* struct LogMessage, with two history fields: id is the number of the push,
\* below tells whether the call was made at a level under the minimum level
LogMessage(id, level, text, toFile) ==
  [id |-> id, level |-> level, text |-> text, toFile |-> toFile,
   below |-> level < _level]

\* one performed write: the record and where it went ("console" or the file's path)
WriteEvent(msg, sink) ==
  [id |-> msg.id, level |-> msg.level, text |-> msg.text, toFile |-> msg.toFile,
   below |-> msg.below, sink |-> sink]

Init ==
  /\ _level = Trace
  /\ _logPath = DEFAULT_PATH
  /\ _logToFile = FALSE
  /\ fileOpen = FALSE
  /\ fileFail = FALSE
  /\ openPath = DEFAULT_PATH
  /\ _logQ = << >>
  /\ _running = TRUE
  /\ qMutex = "none"
  /\ wpc = "check"
  /\ wmsg = NoMsg
  /\ dpc = "idle"
  /\ written = << >>
  /\ nextId = 0
  /\ shutId = 0
  /\ lastOp = [op |-> "none", arg |-> 0]
  /\ nlogs = 0
  /\ nctl = 0
  /\ full = << >>
  /\ p = NoPtr

\* ----- condition variable -----
\* _cv.notify_one() / _cv.notify_all(): the only possible waiter is the worker;
\* a notified waiter leaves the wait and has to take the lock again
Notify(pc) == IF pc = "blocked" THEN "lock" ELSE pc

\* ----- queue -----
\* variant: the record is put at the front of the queue
pushToQ_front(q, msg) == << msg >> \o q

\* pushToQ: _logQ.push(msg); _cv.notify_one()
pushToQ(q, msg) == Append(q, msg)

\* variant: the gate also drops a call made at exactly the minimum level
LogBody_le(q, level, text, id) ==
  IF level <= _level THEN q
  ELSE pushToQ(q, LogMessage(id, level, text, FALSE))

\* variant: the gate lets the level just under the minimum level through
LogBody_offByOne(q, level, text, id) ==
  IF level + 1 < _level THEN q
  ELSE pushToQ(q, LogMessage(id, level, text, FALSE))

\* the body of Log on a queue value: level gate, then push of a console record.
\* Yields the new queue (unchanged when the call is dropped).
LogBody(q, level, text, id) ==
  IF level < _level THEN q
  ELSE pushToQ(q, LogMessage(id, level, text, FALSE))

\* variant: LogToFile applies the level gate of Log
LogToFileBody_gated(q, level, text, id) ==
  IF level < _level THEN q
  ELSE pushToQ(q, LogMessage(id, level, text, TRUE))

\* the body of LogToFile past its _logToFile guard: push of a file record
LogToFileBody(q, level, text, id) ==
  pushToQ(q, LogMessage(id, level, text, TRUE))

\* variant: the push is not followed by _cv.notify_one()
Pushed_noNotify(q) ==
  /\ _logQ' = q
  /\ nextId' = IF q = _logQ THEN nextId ELSE nextId + 1
  /\ wpc' = wpc

\* effect of a call that may have pushed: queue, id counter, notify_one
Pushed(q) ==
  /\ _logQ' = q
  /\ nextId' = IF q = _logQ THEN nextId ELSE nextId + 1
  /\ wpc' = IF q = _logQ THEN wpc ELSE Notify(wpc)

\* caller threads may log until the destructor has joined the worker
CallersAlive == dpc \in {"idle", "notify", "join"}
\* the controlling thread is the one that runs the destructor
ControlAlive == dpc = "idle"

\* ----- std::fstream -----
\* _logFile.open(_logPath, out | app)
OpenResult ==
  IF fileOpen THEN [open |-> TRUE, fail |-> TRUE, path |-> openPath]
  ELSE IF Openable(_logPath) THEN [open |-> TRUE, fail |-> FALSE, path |-> _logPath]
  ELSE [open |-> FALSE, fail |-> TRUE, path |-> openPath]

\* _logFile << msg.message : the events appended to the history
StreamInsert(msg) ==
  IF fileOpen /\ ~fileFail THEN << WriteEvent(msg, openPath) >> ELSE << >>

\* ----- control operations -----
SetLevel(lvl) ==
  /\ ControlAlive /\ nctl < MaxCtl
  /\ _level' = lvl
  /\ lastOp' = [op |-> "SetLevel", arg |-> lvl]
  /\ nctl' = nctl + 1
  /\ UNCHANGED << _logPath, _logToFile, fileVars, _logQ, _running, workerVars,
                  dpc, written, nextId, shutId, nlogs >>
  /\ UNCHANGED fmtVars

\* variant: the new path is applied at once to the handle that is open
SetLogfilePath_reopen(path) ==
  /\ ControlAlive /\ nctl < MaxCtl
  /\ _logPath' = path
  /\ openPath' = IF fileOpen THEN path ELSE openPath
  /\ lastOp' = [op |-> "SetLogfilePath", arg |-> path]
  /\ nctl' = nctl + 1
  /\ UNCHANGED << _level, _logToFile, fileOpen, fileFail, _logQ, _running, workerVars,
                  dpc, written, nextId, shutId, nlogs >>
  /\ UNCHANGED fmtVars

SetLogfilePath(path) ==
  /\ ControlAlive /\ nctl < MaxCtl
  /\ _logPath' = path
  /\ lastOp' = [op |-> "SetLogfilePath", arg |-> path]
  /\ nctl' = nctl + 1
  /\ UNCHANGED << _level, _logToFile, fileVars, _logQ, _running, workerVars,
                  dpc, written, nextId, shutId, nlogs >>
  /\ UNCHANGED fmtVars

\* variant: disabling clears the flag and leaves the file open
EnableFileLogging_noClose(enable) ==
  /\ ControlAlive /\ nctl < MaxCtl
  /\ lastOp' = [op |-> "EnableFileLogging", arg |-> enable]
  /\ nctl' = nctl + 1
  /\ IF enable
     THEN LET r == OpenResult IN
          /\ fileOpen' = r.open /\ fileFail' = r.fail /\ openPath' = r.path
          /\ IF ~r.open
             THEN /\ qMutex = "none"
                  /\ Pushed(LogBody(_logQ, Error, OpenFailText, nextId + 1))
                  /\ _logToFile' = FALSE
             ELSE /\ _logToFile' = enable
                  /\ UNCHANGED << _logQ, nextId, wpc >>
     ELSE /\ UNCHANGED << fileOpen, fileFail, openPath >>
          /\ _logToFile' = enable
          /\ UNCHANGED << _logQ, nextId, wpc >>
  /\ UNCHANGED << _level, _logPath, _running, qMutex, wmsg, dpc, written, shutId, nlogs >>
  /\ UNCHANGED fmtVars

\* variant: the failure branch does not reset _logToFile and falls through
EnableFileLogging_keepFlag(enable) ==
  /\ ControlAlive /\ nctl < MaxCtl
  /\ lastOp' = [op |-> "EnableFileLogging", arg |-> enable]
  /\ nctl' = nctl + 1
  /\ IF enable
     THEN LET r == OpenResult IN
          /\ fileOpen' = r.open /\ fileFail' = r.fail /\ openPath' = r.path
          /\ IF ~r.open
             THEN /\ qMutex = "none"
                  /\ Pushed(LogBody(_logQ, Error, OpenFailText, nextId + 1))
             ELSE UNCHANGED << _logQ, nextId, wpc >>
          /\ _logToFile' = enable
     ELSE /\ fileOpen' = FALSE
          /\ UNCHANGED << fileFail, openPath >>
          /\ _logToFile' = enable
          /\ UNCHANGED << _logQ, nextId, wpc >>
  /\ UNCHANGED << _level, _logPath, _running, qMutex, wmsg, dpc, written, shutId, nlogs >>
  /\ UNCHANGED fmtVars

EnableFileLogging(enable) ==
  /\ ControlAlive /\ nctl < MaxCtl
  /\ lastOp' = [op |-> "EnableFileLogging", arg |-> enable]
  /\ nctl' = nctl + 1
  /\ IF enable
     THEN LET r == OpenResult IN
          /\ fileOpen' = r.open /\ fileFail' = r.fail /\ openPath' = r.path
          /\ IF ~r.open
             THEN /\ qMutex = "none"
                  /\ Pushed(LogBody(_logQ, Error, OpenFailText, nextId + 1))
                  /\ _logToFile' = FALSE
             ELSE /\ _logToFile' = enable
                  /\ UNCHANGED << _logQ, nextId, wpc >>
     ELSE /\ fileOpen' = FALSE
          /\ UNCHANGED << fileFail, openPath >>
          /\ _logToFile' = enable
          /\ UNCHANGED << _logQ, nextId, wpc >>
  /\ UNCHANGED << _level, _logPath, _running, qMutex, wmsg, dpc, written, shutId, nlogs >>
  /\ UNCHANGED fmtVars

\* ----- producer entry points -----
\* variant: the push is made without taking _qMutex
Log_noLock(level) ==
  /\ CallersAlive /\ nlogs < MaxLogs
  /\ lastOp' = [op |-> "Log", arg |-> level]
  /\ nlogs' = nlogs + 1
  /\ Pushed(LogBody(_logQ, level, UserText, nextId + 1))
  /\ UNCHANGED << _level, _logPath, _logToFile, fileVars, _running, qMutex, wmsg,
                  dpc, written, shutId, nctl >>
  /\ UNCHANGED fmtVars

\* std::lock_guard lock(_qMutex) is taken and released within the step: the
\* step needs the mutex to be free
Log(level) ==
  /\ CallersAlive /\ nlogs < MaxLogs
  /\ level < _level \/ qMutex = "none"
  /\ lastOp' = [op |-> "Log", arg |-> level]
  /\ nlogs' = nlogs + 1
  /\ Pushed(LogBody(_logQ, level, UserText, nextId + 1))
  /\ UNCHANGED << _level, _logPath, _logToFile, fileVars, _running, qMutex, wmsg,
                  dpc, written, shutId, nctl >>
  /\ UNCHANGED fmtVars

\* variant: the misuse branch does not return, the message is enqueued as well
LogToFile_fallthrough(level) ==
  /\ CallersAlive /\ nlogs < MaxLogs
  /\ qMutex = "none"
  /\ lastOp' = [op |-> "LogToFile", arg |-> level]
  /\ nlogs' = nlogs + 1
  /\ IF ~_logToFile
     THEN /\ _logQ' = LogToFileBody(LogBody(_logQ, Warn, MisuseText, nextId + 1),
                                    level, UserText, nextId + 2)
          /\ nextId' = nextId + 2
          /\ wpc' = Notify(wpc)
     ELSE Pushed(LogToFileBody(_logQ, level, UserText, nextId + 1))
  /\ UNCHANGED << _level, _logPath, _logToFile, fileVars, _running, qMutex, wmsg,
                  dpc, written, shutId, nctl >>
  /\ UNCHANGED fmtVars

LogToFile(level) ==
  /\ CallersAlive /\ nlogs < MaxLogs
  /\ qMutex = "none"
  /\ lastOp' = [op |-> "LogToFile", arg |-> level]
  /\ nlogs' = nlogs + 1
  /\ IF ~_logToFile
     THEN Pushed(LogBody(_logQ, Warn, MisuseText, nextId + 1))
     ELSE Pushed(LogToFileBody(_logQ, level, UserText, nextId + 1))
  /\ UNCHANGED << _level, _logPath, _logToFile, fileVars, _running, qMutex, wmsg,
                  dpc, written, shutId, nctl >>
  /\ UNCHANGED fmtVars

\* ----- worker thread (lambda of the constructor) -----
histVars == << shutId, lastOp, nlogs, nctl >>
cfgVars == << _level, _logPath, _logToFile >>

\* variant: the loop also ends when it finds the queue empty
WorkerCheck_exitOnEmpty ==
  /\ wpc = "check"
  /\ wpc' = IF _running /\ _logQ # << >> THEN "lock" ELSE "done"
  /\ UNCHANGED << cfgVars, fileVars, _logQ, _running, qMutex, wmsg, dpc, written,
                  nextId, histVars >>
  /\ UNCHANGED fmtVars

\* while (_running.load())
WorkerCheck ==
  /\ wpc = "check"
  /\ wpc' = IF _running THEN "lock" ELSE "done"
  /\ UNCHANGED << cfgVars, fileVars, _logQ, _running, qMutex, wmsg, dpc, written,
                  nextId, histVars >>
  /\ UNCHANGED fmtVars

\* the wait predicate: !_logQ.empty() || !_running.load()
WaitPredicate == _logQ # << >> \/ ~_running

\* std::unique_lock lock(_qMutex), or the re-lock on leaving the wait, followed
\* by the evaluation of the wait predicate under the lock
WorkerLock ==
  /\ wpc = "lock"
  /\ qMutex = "none"
  /\ qMutex' = "worker"
  /\ wpc' = IF WaitPredicate THEN "inner" ELSE "towait"
  /\ UNCHANGED << cfgVars, fileVars, _logQ, _running, wmsg, dpc, written,
                  nextId, histVars >>
  /\ UNCHANGED fmtVars

\* _cv.wait: release the lock and block
WorkerWait ==
  /\ wpc = "towait"
  /\ qMutex' = "none"
  /\ wpc' = "blocked"
  /\ UNCHANGED << cfgVars, fileVars, _logQ, _running, wmsg, dpc, written,
                  nextId, histVars >>
  /\ UNCHANGED fmtVars

\* a spurious wake-up of the condition variable
SpuriousWake ==
  /\ wpc = "blocked"
  /\ wpc' = "lock"
  /\ UNCHANGED << cfgVars, fileVars, _logQ, _running, qMutex, wmsg, dpc, written,
                  nextId, histVars >>
  /\ UNCHANGED fmtVars

\* variant: the lock is not released after the pop
WorkerInner_keepLock ==
  /\ wpc = "inner"
  /\ IF _logQ # << >>
     THEN /\ wmsg' = Head(_logQ)
          /\ _logQ' = Tail(_logQ)
          /\ wpc' = "write"
          /\ qMutex' = qMutex
     ELSE /\ wpc' = "check"
          /\ qMutex' = "none"
          /\ UNCHANGED << wmsg, _logQ >>
  /\ UNCHANGED << cfgVars, fileVars, _running, dpc, written, nextId, histVars >>
  /\ UNCHANGED fmtVars

\* while (!_logQ.empty()) { msg = front; pop; lock.unlock(); ... } and, when the
\* queue is empty, the end of the outer iteration (the unique_lock is released)
WorkerInner ==
  /\ wpc = "inner"
  /\ IF _logQ # << >>
     THEN /\ wmsg' = Head(_logQ)
          /\ _logQ' = Tail(_logQ)
          /\ wpc' = "write"
     ELSE /\ wpc' = "check"
          /\ UNCHANGED << wmsg, _logQ >>
  /\ qMutex' = "none"
  /\ UNCHANGED << cfgVars, fileVars, _running, dpc, written, nextId, histVars >>
  /\ UNCHANGED fmtVars

\* if (msg.toFile && _logToFile && _logFile.is_open())
WorkerWrite ==
  /\ wpc = "write"
  /\ wpc' = IF wmsg.toFile /\ _logToFile /\ fileOpen THEN "insert" ELSE "print"
  /\ UNCHANGED << cfgVars, fileVars, _logQ, _running, qMutex, wmsg, dpc, written,
                  nextId, histVars >>
  /\ UNCHANGED fmtVars

\* _logFile << msg.message; (an insertion into a stream that has been closed
\* in between writes nothing and sets the stream's error state)
WorkerInsert ==
  /\ wpc = "insert"
  /\ written' = written \o StreamInsert(wmsg)
  /\ fileFail' = (fileFail \/ ~fileOpen)
  /\ wpc' = "print"
  /\ UNCHANGED << cfgVars, fileOpen, openPath, _logQ, _running, qMutex, wmsg, dpc,
                  nextId, histVars >>
  /\ UNCHANGED fmtVars

\* std::print("{}", msg.message);
WorkerPrint ==
  /\ wpc = "print"
  /\ written' = Append(written, WriteEvent(wmsg, "console"))
  /\ wmsg' = NoMsg
  /\ wpc' = "relock"
  /\ UNCHANGED << cfgVars, fileVars, _logQ, _running, qMutex, dpc,
                  nextId, histVars >>
  /\ UNCHANGED fmtVars

\* lock.lock();
WorkerRelock ==
  /\ wpc = "relock"
  /\ qMutex = "none"
  /\ qMutex' = "worker"
  /\ wpc' = "inner"
  /\ UNCHANGED << cfgVars, fileVars, _logQ, _running, wmsg, dpc, written,
                  nextId, histVars >>
  /\ UNCHANGED fmtVars

Worker ==
  \/ WorkerCheck \/ WorkerLock \/ WorkerWait \/ WorkerInner
  \/ WorkerWrite \/ WorkerInsert \/ WorkerPrint \/ WorkerRelock

\* ----- destructor -----
\* _running = false;
DtorStore ==
  /\ dpc = "idle"
  /\ _running' = FALSE
  /\ dpc' = "notify"
  /\ shutId' = nextId
  /\ UNCHANGED << cfgVars, fileVars, _logQ, workerVars, written, nextId,
                  lastOp, nlogs, nctl >>
  /\ UNCHANGED fmtVars

\* _cv.notify_all();
DtorNotify ==
  /\ dpc = "notify"
  /\ wpc' = Notify(wpc)
  /\ dpc' = "join"
  /\ UNCHANGED << cfgVars, fileVars, _logQ, _running, qMutex, wmsg, written,
                  nextId, histVars >>
  /\ UNCHANGED fmtVars

\* _workerThread.join();
DtorJoin ==
  /\ dpc = "join"
  /\ wpc = "done"
  /\ dpc' = "drain"
  /\ UNCHANGED << cfgVars, fileVars, _logQ, _running, workerVars, written,
                  nextId, histVars >>
  /\ UNCHANGED fmtVars

\* variant: the drain prints every record and never appends to the file
DtorDrain_consoleOnly ==
  /\ dpc = "drain"
  /\ IF _logQ # << >>
     THEN LET msg == Head(_logQ) IN
          /\ _logQ' = Tail(_logQ)
          /\ written' = Append(written, WriteEvent(msg, "console"))
          /\ dpc' = dpc
     ELSE /\ dpc' = "close"
          /\ UNCHANGED << _logQ, written >>
  /\ UNCHANGED << cfgVars, fileVars, _running, workerVars, nextId, histVars >>
  /\ UNCHANGED fmtVars

\* one iteration of while (!_logQ.empty()) { ... }, or its exit
DtorDrain ==
  /\ dpc = "drain"
  /\ IF _logQ # << >>
     THEN LET msg == Head(_logQ) IN
          /\ _logQ' = Tail(_logQ)
          /\ written' = IF msg.toFile /\ _logToFile /\ fileOpen
                        THEN written \o StreamInsert(msg)
                        ELSE Append(written, WriteEvent(msg, "console"))
          /\ dpc' = dpc
     ELSE /\ dpc' = "close"
          /\ UNCHANGED << _logQ, written >>
  /\ UNCHANGED << cfgVars, fileVars, _running, workerVars, nextId, histVars >>
  /\ UNCHANGED fmtVars

\* if (_logFile.is_open()) _logFile.close();
DtorClose ==
  /\ dpc = "close"
  /\ fileOpen' = FALSE
  /\ dpc' = "stopped"
  /\ UNCHANGED << cfgVars, fileFail, openPath, _logQ, _running, workerVars,
                  written, nextId, histVars >>
  /\ UNCHANGED fmtVars

Dtor == DtorStore \/ DtorNotify \/ DtorJoin \/ DtorDrain \/ DtorClose

\* ----- calls whose template does not match its arguments -----
\* std::vformat throws std::format_error inside format, which is noexcept (as
\* are Log and LogToFile): std::terminate ends the process, no destructor runs
Terminate ==
  /\ wpc' = "aborted"
  /\ dpc' = "aborted"
  /\ UNCHANGED << cfgVars, fileVars, _logQ, _running, qMutex, wmsg, written, nextId >>

\* Log with a mismatching template: the level gate comes before format
LogMismatch(level) ==
  /\ CallersAlive /\ nlogs < MaxLogs
  /\ lastOp' = [op |-> "LogMismatch", arg |-> level]
  /\ nlogs' = nlogs + 1
  /\ IF level < _level
     THEN UNCHANGED << cfgVars, fileVars, _logQ, _running, workerVars, dpc, written, nextId >>
     ELSE Terminate
  /\ UNCHANGED << shutId, nctl, fmtVars >>

\* LogToFile with a mismatching template: the misuse branch logs its own,
\* well-formed message and returns before format is reached
LogToFileMismatch(level) ==
  /\ CallersAlive /\ nlogs < MaxLogs
  /\ lastOp' = [op |-> "LogToFileMismatch", arg |-> level]
  /\ nlogs' = nlogs + 1
  /\ IF ~_logToFile
     THEN /\ qMutex = "none"
          /\ Pushed(LogBody(_logQ, Warn, MisuseText, nextId + 1))
          /\ UNCHANGED << cfgVars, fileVars, _running, qMutex, wmsg, dpc, written >>
     ELSE Terminate
  /\ UNCHANGED << shutId, nctl, fmtVars >>

\* ----- format: resolution of the short file name -----
\* the characters a path is made of, and the marker "src/"
Alphabet == {"s", "r", "c", "/"}
SrcMarker == << "s", "r", "c", "/" >>
\* longest path tried
MaxPathLen == 8

RECURSIVE StrStrFrom(_, _, _)
StrStrFrom(str, needle, i) ==
  IF i + Len(needle) - 1 > Len(str) THEN 0
  ELSE IF SubSeq(str, i, i + Len(needle) - 1) = needle THEN i
  ELSE StrStrFrom(str, needle, i + 1)

RECURSIVE StrRStrFrom(_, _, _)
StrRStrFrom(str, needle, i) ==
  IF i < 1 THEN 0
  ELSE IF i + Len(needle) - 1 <= Len(str) /\ SubSeq(str, i, i + Len(needle) - 1) = needle THEN i
  ELSE StrRStrFrom(str, needle, i - 1)

\* variant: the last occurrence of the needle
strstr_last(str, needle) == StrRStrFrom(str, needle, Len(str))

\* std::strstr: index of the first occurrence of needle in str, 0 for a null pointer
strstr(str, needle) == StrStrFrom(str, needle, 1)

RECURSIVE StrRChrFrom(_, _, _)
StrRChrFrom(str, ch, i) ==
  IF i < 1 THEN 0
  ELSE IF str[i] = ch THEN i
  ELSE StrRChrFrom(str, ch, i - 1)

\* std::strrchr: index of the last occurrence of ch in str, 0 for a null pointer
strrchr(str, ch) == StrRChrFrom(str, ch, Len(str))

\* the string a char pointer into str at index i points to
StrAt(str, i) == SubSeq(str, i, Len(str))

\* p = strstr(full, "src/"); if (!p) { slash = strrchr(full, '/'); p = slash ? slash + 1 : full; }
ShortFile(str) ==
  LET q == strstr(str, SrcMarker) IN
    IF q # 0 THEN StrAt(str, q)
    ELSE LET slash == strrchr(str, "/") IN
           IF slash # 0 THEN StrAt(str, slash + 1) ELSE str

\* the part of format that resolves the short file name of where.file_name()
format ==
  /\ p = NoPtr
  /\ p' = ShortFile(full)
  /\ UNCHANGED << cfgVars, fileVars, _logQ, _running, workerVars, dpc, written,
                  nextId, histVars, full >>

RECURSIVE Strings(_)
Strings(n) ==
  IF n = 0 THEN { << >> }
  ELSE LET shorter == Strings(n - 1) IN
         shorter \cup { Append(str, ch) : str \in { t \in shorter : Len(t) = n - 1 }, ch \in Alphabet }

Next ==
  \/ \E lvl \in LogLevel : SetLevel(lvl)
  \/ \E path \in Paths : SetLogfilePath(path)
  \/ \E enable \in BOOLEAN : EnableFileLogging(enable)
  \/ \E level \in CallLevels : Log(level)
  \/ \E level \in CallLevels : LogToFile(level)
  \/ Worker
  \/ SpuriousWake
  \/ Dtor

Spec == Init /\ [][Next]_vars

\* the threads the scheduler runs are scheduled fairly; callers may stop
\* calling, and a spurious wake-up is never guaranteed
FairSpec == Spec /\ WF_vars(Worker) /\ WF_vars(Dtor)

\* ----- the logger with all three paths and with calls whose template does not
\* match; the levels of the calls are taken from both sides of the gates -----
CoreLevels == {Debug, Error}
CoreMinLevels == {Trace, Error, Off}

NextCore ==
  \/ \E lvl \in CoreMinLevels : SetLevel(lvl)
  \/ \E path \in AllPaths : SetLogfilePath(path)
  \/ \E enable \in BOOLEAN : EnableFileLogging(enable)
  \/ \E level \in CoreLevels : Log(level)
  \/ \E level \in CoreLevels : LogToFile(level)
  \/ \E level \in CoreLevels : LogMismatch(level)
  \/ \E level \in CoreLevels : LogToFileMismatch(level)
  \/ Worker
  \/ SpuriousWake
  \/ Dtor

CoreSpec == Init /\ [][NextCore]_vars

\* ----- the calls that push a record (Log, LogToFile with its misuse report,
\* EnableFileLogging with its failure report), the worker and the destructor -----
NextWake ==
  \/ SetLogfilePath(BadPath)
  \/ \E enable \in BOOLEAN : EnableFileLogging(enable)
  \/ Log(Info)
  \/ LogToFile(Info)
  \/ Worker
  \/ SpuriousWake
  \/ Dtor

WakeSpec == Init /\ [][NextWake]_vars

\* the worker thread is scheduled fairly; nothing obliges the callers to call
\* again or the process to shut down
FairWakeSpec == WakeSpec /\ WF_vars(Worker)

\* ----- format on every path of at most MaxPathLen characters -----
InitFmt ==
  /\ _level = Trace /\ _logPath = DEFAULT_PATH /\ _logToFile = FALSE
  /\ fileOpen = FALSE /\ fileFail = FALSE /\ openPath = DEFAULT_PATH
  /\ _logQ = << >> /\ _running = TRUE /\ qMutex = "none"
  /\ wpc = "check" /\ wmsg = NoMsg /\ dpc = "idle"
  /\ written = << >> /\ nextId = 0 /\ shutId = 0
  /\ lastOp = [op |-> "none", arg |-> 0] /\ nlogs = 0 /\ nctl = 0
  /\ full \in Strings(MaxPathLen)
  /\ p = NoPtr

NextFmt == format

FmtSpec == InitFmt /\ [][NextFmt]_vars

TypeOK ==
  /\ _level \in LogLevel
  /\ _logPath \in AllPaths
  /\ _logToFile \in BOOLEAN
  /\ fileOpen \in BOOLEAN /\ fileFail \in BOOLEAN /\ openPath \in AllPaths
  /\ _running \in BOOLEAN
  /\ qMutex \in {"none", "worker"}
  /\ wpc \in {"check", "lock", "towait", "blocked", "inner", "write", "insert", "print", "relock", "done", "aborted"}
  /\ dpc \in {"idle", "notify", "join", "drain", "close", "stopped", "aborted"}
  /\ nlogs \in 0 .. MaxLogs + 1 /\ nctl \in 0 .. MaxCtl + 1

(***************************************************************************)
(* Properties                                                              *)
(***************************************************************************)

\* the step is a call of the producer entry point op / of the control operation op
LogCall(op) == nlogs' = nlogs + 1 /\ lastOp'.op = op
CtlCall(op) == nctl' = nctl + 1 /\ lastOp'.op = op

\* the state of the pipeline (everything but the history variables)
pipeVars == << _level, _logPath, _logToFile, fileOpen, fileFail, openPath, _logQ,
               _running, qMutex, wpc, wmsg, dpc, written >>

\* the step appends exactly one record with these fields to the queue
AppendedOne(level, text, toFile) ==
  /\ Len(_logQ') = Len(_logQ) + 1
  /\ SubSeq(_logQ', 1, Len(_logQ)) = _logQ
  /\ LET m == _logQ'[Len(_logQ')] IN
       m.level = level /\ m.text = text /\ m.toFile = toFile

\* every record that exists: queued, held by the worker, or written
Queued == { _logQ[i] : i \in DOMAIN _logQ }
WrittenTo(sinks) == { written[i] : i \in { k \in DOMAIN written : written[k].sink \in sinks } }
Known(text) ==
  \/ \E m \in Queued : m.text = text
  \/ wmsg.text = text
  \/ \E e \in WrittenTo(AllPaths \cup {"console"}) : e.text = text

\* C1: records are written in the order they were pushed, over both sinks:
\* the pushes are numbered, the numbers of the writes never decrease, and
\* everything still queued was pushed after everything written.
C1_WriteOrderIsEnqueueOrder ==
  /\ \A i, j \in DOMAIN written : i < j => written[i].id <= written[j].id
  /\ \A i, j \in DOMAIN _logQ : i < j => _logQ[i].id < _logQ[j].id
  /\ \A i \in DOMAIN written : \A k \in DOMAIN _logQ : written[i].id < _logQ[k].id

\* C1 witness: two different records have been written, one to the file and one
\* to the console
C1_Witness ==
  \E i, j \in DOMAIN written :
    /\ i < j /\ written[i].id < written[j].id
    /\ written[i].sink # written[j].sink

\* C2: when the destructor is about to close the file handle (and after), every
\* record pushed before shutdown was triggered has been written to some sink.
C2_ShutdownDrainsFully ==
  dpc \in {"close", "stopped"} =>
    \A id \in 1 .. shutId : \E i \in DOMAIN written : written[i].id = id

\* C3: once the destructor has stored running = false and notified, it
\* eventually gets past the join and the pipeline reaches Stopped.
C3_ShutdownCompletes == (dpc = "join") ~> (dpc = "stopped")

\* C4: a Log call under the minimum level changes nothing of the pipeline, a Log
\* call at or above it appends exactly one console record of that level.
C4_LogLevelGate ==
  [][ LogCall("Log") =>
        IF lastOp'.arg < _level
        THEN UNCHANGED pipeVars
        ELSE AppendedOne(lastOp'.arg, UserText, FALSE) ]_vars

\* C4 witness: a Log call was accepted and written, the minimum level was then
\* raised and a second Log call, under it, was dropped
C4_Witness ==
  /\ lastOp.op = "Log" /\ lastOp.arg < _level
  /\ nlogs = 2 /\ nextId = 1
  /\ \E e \in WrittenTo({"console"}) : e.text = UserText /\ e.level >= Trace

\* C5 (as stated): a LogToFile call while file logging is disabled appends
\* exactly one Warn console record and writes nothing.
C5_MisuseOneWarn ==
  [][ (LogCall("LogToFile") /\ ~_logToFile) =>
        /\ AppendedOne(Warn, MisuseText, FALSE)
        /\ written' = written ]_vars

\* the behaviour of a misuse call: the Warn report goes through the level gate
\* of Log, the message itself is not enqueued, nothing is written
MisuseBehaviour ==
  /\ IF _level <= Warn
     THEN AppendedOne(Warn, MisuseText, FALSE)
     ELSE _logQ' = _logQ
  /\ written' = written
  /\ UNCHANGED fileVars

\* C5 (amended): a LogToFile call while file logging is disabled appends exactly
\* one Warn console record when the minimum level is at most Warn and none
\* otherwise; it writes nothing and the message is dropped.
C5_MisuseWarnIfNotFiltered ==
  [][ (LogCall("LogToFile") /\ ~_logToFile) => MisuseBehaviour ]_vars

\* C5 witness: the last call was a misuse LogToFile and its Warn report reached
\* the console
C5_Witness ==
  /\ lastOp.op = "LogToFile" /\ ~_logToFile
  /\ \E e \in WrittenTo({"console"}) : e.text = MisuseText /\ e.level = Warn

C7_LogToFileBypassesLevel ==
  [][ (LogCall("LogToFile") /\ _logToFile) =>
        AppendedOne(lastOp'.arg, UserText, TRUE) ]_vars

\* C7 witness: a LogToFile call under the minimum level was made with file
\* logging enabled and its record exists
C7_Witness ==
  /\ lastOp.op = "LogToFile" /\ _logToFile /\ lastOp.arg < _level
  /\ \/ \E m \in Queued \cup {wmsg} : m.toFile /\ m.below /\ m.level = lastOp.arg
     \/ \E e \in WrittenTo(AllPaths) : e.toFile /\ e.below /\ e.level = lastOp.arg

\* C8 (as stated): with the minimum level Off no call of Log or LogToFile
\* produces a record.
C8_OffSuppressesAll ==
  [][ ((LogCall("Log") \/ LogCall("LogToFile")) /\ _level = Off) =>
        _logQ' = _logQ /\ written' = written ]_vars

\* C8 (amended): with the minimum level Off no Log call, and no LogToFile call
\* made while file logging is disabled, produces a record; a LogToFile call
\* made while file logging is enabled still enqueues its file record.
C8_OffSuppressesLog ==
  [][ ((LogCall("Log") \/ LogCall("LogToFile")) /\ _level = Off) =>
        IF lastOp'.op = "LogToFile" /\ _logToFile
        THEN AppendedOne(lastOp'.arg, UserText, TRUE)
        ELSE _logQ' = _logQ /\ written' = written ]_vars

\* C8 witness: the minimum level is Off, a Fatal Log call and a misuse
\* LogToFile call have been made and no record exists
C8_Witness ==
  /\ _level = Off /\ ~_logToFile /\ nlogs = 2
  /\ lastOp.op = "Log" /\ lastOp.arg = Fatal
  /\ nextId = 0 /\ _logQ = << >> /\ written = << >>

\* C9: nothing is printed on the console for a call made at a level under the
\* minimum level of that moment.
C9_NoConsoleOutputBelowMinimum ==
  \A i \in DOMAIN written : written[i].sink = "console" => ~written[i].below

\* C10: an EnableFileLogging(b) call that directly follows an
\* EnableFileLogging(b) call leaves the enabled flag, the handle (open, usable)
\* and the queue as they were.
C10_EnableIdempotent ==
  [][ (CtlCall("EnableFileLogging") /\ lastOp.op = "EnableFileLogging"
         /\ lastOp'.arg = lastOp.arg) =>
        << _logToFile, fileOpen, fileFail, _logQ >>' =
          << _logToFile, fileOpen, fileFail, _logQ >> ]_vars

\* C11: SetLogfilePath only records the path: it leaves the enabled flag, the
\* handle, the minimum level, the queue and the output as they are; the path of
\* the handle changes only in an EnableFileLogging(true) call that opens the
\* file, to the recorded path, and every file write goes to the handle's path.
C11_SetLogfilePathOnlyRecords ==
  [][ /\ CtlCall("SetLogfilePath") =>
           /\ _logPath' = lastOp'.arg
           /\ UNCHANGED << _logToFile, fileVars, _level, _logQ, written >>
      /\ openPath' # openPath =>
           /\ CtlCall("EnableFileLogging") /\ lastOp'.arg
           /\ ~fileOpen /\ fileOpen' /\ openPath' = _logPath
      /\ (Len(written') > Len(written) /\ written'[Len(written')].sink # "console") =>
           written'[Len(written')].sink = openPath ]_vars

\* C11 witness: a path other than the default one was recorded, the next
\* EnableFileLogging(true) opened it and a record was appended to that file
C11_Witness ==
  /\ _logPath = OtherPath /\ openPath = OtherPath /\ fileOpen
  /\ \E e \in WrittenTo({OtherPath}) : e.toFile

\* C12: a Log or LogToFile call whose template does not match its arguments
\* returns to the caller, the process goes on, and the call's record is still
\* enqueued (when the call is not dropped by the level gate or as a misuse).
C12_MismatchNeverCrashes ==
  [][ (LogCall("LogMismatch") \/ LogCall("LogToFileMismatch")) =>
        /\ dpc' # "aborted" /\ wpc' # "aborted"
        /\ ( \/ (lastOp'.op = "LogMismatch" /\ lastOp'.arg >= _level)
             \/ (lastOp'.op = "LogToFileMismatch" /\ _logToFile) ) =>
             Len(_logQ') = Len(_logQ) + 1 ]_vars

\* the places of the marker "src/" and of the separator in the path given to format
Marks == { i \in 1 .. Len(full) : i + 3 <= Len(full) /\ SubSeq(full, i, i + 3) = SrcMarker }
Slashes == { i \in 1 .. Len(full) : full[i] = "/" }
Least(set) == CHOOSE i \in set : \A j \in set : i <= j
Greatest(set) == CHOOSE i \in set : \A j \in set : j <= i

\* C13 (as stated): the short file name is the rest of the path after "src/"
\* when the path has that marker, else the text after the last "/", else the
\* whole path.
C13_ShortFileAfterMarker ==
  p # NoPtr =>
    IF Marks # {} THEN p = SubSeq(full, Least(Marks) + 4, Len(full))
    ELSE IF Slashes # {} THEN p = SubSeq(full, Greatest(Slashes) + 1, Len(full))
    ELSE p = full

\* C13 (amended): the short file name is the path from its first "src/" on, the
\* marker included, when the path has that marker, else the text after the last
\* "/", else the whole path.
C13_ShortFileFromMarker ==
  p # NoPtr =>
    IF Marks # {} THEN p = SubSeq(full, Least(Marks), Len(full))
    ELSE IF Slashes # {} THEN p = SubSeq(full, Greatest(Slashes) + 1, Len(full))
    ELSE p = full

\* C13 witness: format has resolved a path with directories before the marker
\* and a file name after it
C13_Witness ==
  /\ p # NoPtr /\ Marks # {}
  /\ Least(Marks) > 2 /\ Len(p) > 4 /\ Len(p) < Len(full)

\* C14: every record is written to one sink only: no record has two writes
\* (one in the file and one on the console).
C14_OneSinkPerRecord ==
  \A i, j \in DOMAIN written : i # j => written[i].id # written[j].id

\* the step in which the worker thread leaves its loop
WorkerExits == wpc # "done" /\ wpc' = "done"

\* C15 (as stated): when the worker leaves its loop, running is false and the
\* queue is empty.
C15_WorkerExitsWithEmptyQueue ==
  [][ WorkerExits => (~_running' /\ _logQ' = << >>) ]_vars

\* C15 (amended): the worker leaves its loop only when running is false; the
\* queue may still hold records then, and it is empty once the destructor's
\* drain is over.
C15_WorkerExitsWhenNotRunning ==
  [][ /\ WorkerExits => ~_running
      /\ dpc' \in {"close", "stopped"} => _logQ' = << >> ]_vars

\* C15 witness: the worker has left its loop while a record that was pushed
\* after shutdown began is still in the queue
C15_Witness ==
  /\ wpc = "done" /\ dpc \in {"notify", "join"}
  /\ \E m \in Queued : m.id > shutId

\* the step pushes a record on the queue / pops a record from it
PushStep == Len(_logQ') > Len(_logQ)
PopStep == Len(_logQ') < Len(_logQ)
\* a caller's lock_guard: the mutex is free before and after the step
UnderCallerLock == qMutex = "none" /\ qMutex' = "none"

\* C16 (as stated): every push is made under the queue lock, and every pop is
\* made by the worker thread while it holds the queue lock.
C16_QueueMutatedUnderLockByWorker ==
  [][ /\ PushStep => UnderCallerLock
      /\ PopStep => (qMutex = "worker" /\ wpc = "inner") ]_vars

\* C16 (amended): every push is made under the queue lock; a pop is made either
\* by the worker thread while it holds the lock, or by the destructor's drain,
\* after the worker has been joined, without the lock.
C16_QueueMutatedUnderLockOrByDrain ==
  [][ /\ PushStep => UnderCallerLock
      /\ PopStep =>
           \/ qMutex = "worker" /\ wpc = "inner" /\ dpc # "drain"
           \/ dpc = "drain" /\ wpc = "done" /\ qMutex = "none" ]_vars

\* C16 witness: the drain is running and a file record has a write in the file
\* but none on the console, so it was popped by the drain, while another
\* record was popped and printed by the worker
C16_Witness ==
  /\ dpc = "drain"
  /\ \E e \in WrittenTo(AllPaths) : \A c \in WrittenTo({"console"}) : c.id # e.id
  /\ WrittenTo({"console"}) # {}

\* the worker is performing the write of the record it holds
WriteInFlight == wpc \in {"write", "insert", "print"}

\* C17: while the worker performs the file append or the console print of a
\* record the queue lock is free, so that a caller's Log call can take it and
\* enqueue; the worker holds the lock again at its next emptiness check.
C17_NoLockDuringWrite ==
  /\ WriteInFlight => qMutex = "none"
  /\ (WriteInFlight /\ CallersAlive /\ nlogs < MaxLogs) => ENABLED Log(Fatal)
  /\ wpc = "inner" => qMutex = "worker"

\* C17 witness: a write is in flight, the lock is free and a Log call has put a
\* later record behind the one being written
C17_Witness ==
  /\ wpc \in {"insert", "print"} /\ qMutex = "none"
  /\ lastOp.op = "Log"
  /\ \E m \in Queued : m.id > wmsg.id /\ ~m.toFile

\* the record with this number is in the queue / has been printed
InQueue(id) == \E m \in Queued : m.id = id
Printed(id) == \E e \in WrittenTo({"console"}) : e.id = id

\* C18: a record that is in the queue while the pipeline is running is
\* eventually dequeued and printed by the worker, unless the process is shut
\* down or terminated first; no further call is needed to wake the worker.
C18_NoLostEnqueueWakeup ==
  \A id \in 1 .. (MaxLogs + MaxCtl) :
    (InQueue(id) /\ dpc = "idle") ~> (Printed(id) \/ dpc # "idle")

\* C18 witness: the pipeline is running, every record pushed so far has been
\* printed by the worker and the worker waits again
C18_Witness ==
  /\ dpc = "idle" /\ wpc = "blocked" /\ nextId >= 2
  /\ \A id \in 1 .. nextId : Printed(id)

\* the appends of the record with this number to a file
FileWrites(id) == { i \in DOMAIN written : written[i].id = id /\ written[i].sink # "console" }
\* the record with this number has been pushed, popped and let go by the worker
Processed(id) == id \in 1 .. nextId /\ ~InQueue(id) /\ wmsg.id # id
\* the step appends a write to a file
FileAppendStep ==
  Len(written') > Len(written) /\ written'[Len(written')].sink # "console"
\* the stream takes insertions
SinkUsable == _logToFile /\ fileOpen /\ ~fileFail

====
